---- MODULE Spec2Model ----
(***************************************************************************)
(* Model of src/src/water.rs: the Gerstner wave field (WaterWaves), the    *)
(* per-tick surface deformation (update_water_vertices) and the buoyancy   *)
(* solver (update_surfboard_physics), driven by a fixed-timestep schedule. *)
(*                                                                         *)
(* f32 values are fixed-point numbers with Scale units per 1.0, tagged     *)
(* with their IEEE class so that x/0 (inf) and 0/0, 0*inf (NaN) behave as  *)
(* the hardware does.  The sign of zero is not modelled.  A wave's         *)
(* steepness is kept as an exact quotient n/d, so that the stability bound *)
(* is decided in real arithmetic and not by the fixed-point rounding.      *)
(***************************************************************************)
EXTENDS Integers, Sequences, FiniteSets, TLC

\* ------------------------------------------------------------------ bounds
MaxTicks == 2
MaxWaves == 2
MaxGrid == 4

Scale == 10 * 10

\* ------------------------------------------------------------------ state
VARIABLES
    app,          \* "startup", "running", or how the process ended
    startup_ran,  \* the Startup systems that have run
    water,        \* the entities with (Mesh3d, WaterSurface, WaterWaves)
    bodies,       \* the entities with (Transform, FloatingBody, Surfboard)
    tick,         \* the number of completed FixedUpdate ticks
    ran,          \* the FixedUpdate systems that have run in the current tick
    mesh_ops,     \* per water entity, the mesh operations of its last deformation
    solver_trace, \* per body, the locals of its last buoyancy update
    tick_start    \* water and bodies as they were when the current tick began

vars == <<app, startup_ran, water, bodies, tick, ran, mesh_ops, solver_trace, tick_start>>

\* ------------------------------------------------------------------ f32
Fin(n) == [c |-> "fin", v |-> n]
NaN == [c |-> "nan", v |-> 0]
PInf == [c |-> "inf", v |-> 1]
NInf == [c |-> "inf", v |-> -1]
Zero == Fin(0)
One == Fin(Scale)

Abs(n) == IF n < 0 THEN -n ELSE n
Sgn(n) == IF n < 0 THEN -1 ELSE 1

\* n / d rounded to the nearest integer, ties away from zero (d # 0)
RoundDiv(n, d) ==
    IF Sgn(n) = Sgn(d)
    THEN (2 * Abs(n) + Abs(d)) \div (2 * Abs(d))
    ELSE -((2 * Abs(n) + Abs(d)) \div (2 * Abs(d)))

IsNaN(a) == a.c = "nan"
IsInf(a) == a.c = "inf"
IsFin(a) == a.c = "fin"
InfOf(s) == IF s < 0 THEN NInf ELSE PInf

FNeg(a) == IF IsNaN(a) THEN NaN ELSE [c |-> a.c, v |-> -a.v]

FAdd(a, b) ==
    IF IsNaN(a) \/ IsNaN(b) THEN NaN
    ELSE IF IsInf(a) /\ IsInf(b) THEN (IF a.v = b.v THEN a ELSE NaN)
    ELSE IF IsInf(a) THEN a
    ELSE IF IsInf(b) THEN b
    ELSE Fin(a.v + b.v)

FSub(a, b) == FAdd(a, FNeg(b))

FMul(a, b) ==
    IF IsNaN(a) \/ IsNaN(b) THEN NaN
    ELSE IF IsInf(a) \/ IsInf(b)
         THEN (IF a.v = 0 \/ b.v = 0 THEN NaN ELSE InfOf(Sgn(a.v) * Sgn(b.v)))
    ELSE Fin(RoundDiv(a.v * b.v, Scale))

FDiv(a, b) ==
    IF IsNaN(a) \/ IsNaN(b) THEN NaN
    ELSE IF IsInf(a) THEN (IF IsInf(b) THEN NaN ELSE InfOf(a.v * Sgn(b.v)))
    ELSE IF IsInf(b) THEN Zero
    ELSE IF b.v = 0 THEN (IF a.v = 0 THEN NaN ELSE InfOf(a.v))
    ELSE Fin(RoundDiv(a.v * Scale, b.v))

\* position of a non-NaN value on the extended real line
Big == 2 ^ 30
Key(a) == IF IsInf(a) THEN a.v * Big ELSE a.v

FGt(a, b) == ~IsNaN(a) /\ ~IsNaN(b) /\ Key(a) > Key(b)
FLe(a, b) == ~IsNaN(a) /\ ~IsNaN(b) /\ Key(a) <= Key(b)

\* f32::min: the other operand when one is NaN
FMin(a, b) ==
    IF IsNaN(a) THEN b
    ELSE IF IsNaN(b) THEN a
    ELSE IF Key(a) <= Key(b) THEN a ELSE b

\* `n as f32` for a usize n
FromUsize(n) == Fin(n * Scale)

\* pi and the sine of x in [0, pi], in fixed point (Bhaskara's rational
\* approximation, exact at 0, pi/2 and pi)
HalfPi == 157
Pi == 2 * HalfPi
SinPos(x) ==
    RoundDiv(Scale * 16 * x * (Pi - x), 5 * Pi * Pi - 4 * x * (Pi - x))

\* the sine of an angle m in [0, 2 pi)
SinTurn(m) == IF m <= Pi THEN Fin(SinPos(m)) ELSE Fin(-SinPos(m - Pi))

FSin(a) == IF ~IsFin(a) THEN NaN ELSE SinTurn(a.v % (2 * Pi))

FCos(a) == IF ~IsFin(a) THEN NaN ELSE FSin(Fin(a.v + HalfPi))

\* ------------------------------------------------------------------ vectors
Vec2(x, y) == [x |-> x, y |-> y]
Vec3(x, y, z) == [x |-> x, y |-> y, z |-> z]
Dot2(p, q) == FAdd(FMul(p.x, q.x), FMul(p.y, q.y))

\* ------------------------------------------------------------------ waves
\* an exact quotient n/d with d >= 0; d = 0 with n > 0 is +infinity
Rat(n, d) == [n |-> n, d |-> d]
RatGt(r, s) == r.n * s.d > s.n * r.d

\* WaveParameters {amplitude, wavelength, speed, direction, steepness, wave_number}
Wave(a, l, sp, dx, dz, q, k) ==
    [amplitude |-> Fin(a), wavelength |-> Fin(l), speed |-> Fin(sp),
     direction |-> Vec2(Fin(dx), Fin(dz)), steepness |-> Rat(q, Scale),
     wave_number |-> Fin(k)]

NineTenths == 90

\* max_steepness with the limit 1.0 of the comment in place of 0.9
max_steepness_one(wave) ==
    LET ak == wave.amplitude.v * wave.wave_number.v
    IN Rat(Sgn(ak) * Scale * Scale, Abs(ak))

\* 0.9 / (amplitude * wave_number), exact (x / 0.0 is +infinity)
max_steepness(wave) ==
    LET ak == wave.amplitude.v * wave.wave_number.v
    IN Rat(Sgn(ak) * NineTenths * Scale, Abs(ak))

\* the body of the validation loop of WaterWaves::default for one wave
clamp_steepness(wave) ==
    LET m == max_steepness(wave)
    IN IF RatGt(wave.steepness, m)
       THEN [wave EXCEPT !.steepness = m]
       ELSE wave

\* WaterWaves::default over a list of wave literals
WaterWaves_default(literals) ==
    [i \in 1..Len(literals) |-> clamp_steepness(literals[i])]

\* steepness * amplitude as an f32
q_a(wave) == Fin(RoundDiv(wave.steepness.n * wave.amplitude.v, wave.steepness.d))

\* wave_number * dot_product - speed * time
phase_of(dot_product, wave, time) ==
    FSub(FMul(wave.wave_number, dot_product), FMul(wave.speed, time))

\* the displacement once q_a_cos and sin_phase are known
displacement_of(q_a_cos, sin_phase, wave) ==
    <<FMul(q_a_cos, wave.direction.x),
      FMul(q_a_cos, wave.direction.y),
      FMul(wave.amplitude, sin_phase)>>

\* the displacement at a phase
displacement_at_phase(phase, wave) ==
    displacement_of(FMul(q_a(wave), FCos(phase)), FSin(phase), wave)

\* (horizontal_x, horizontal_z, vertical_y) of one wave at one position
calculate_gerstner_displacement(position, wave, time) ==
    displacement_at_phase(phase_of(Dot2(position, wave.direction), wave, time), wave)

\* every f32x4 is a 4-sequence of lanes
Lanes == 1..4
splat(a) == [l \in Lanes |-> a]

\* calculate_gerstner_displacement_simd returning its lanes as (y, z, x)
calculate_gerstner_displacement_simd_yzx(positions_x, positions_z, wave, time) ==
    LET d == [l \in Lanes |->
                calculate_gerstner_displacement(Vec2(positions_x[l], positions_z[l]),
                                                wave, time)]
    IN <<[l \in Lanes |-> d[l][3]], [l \in Lanes |-> d[l][2]], [l \in Lanes |-> d[l][1]]>>

\* lane-wise f32x4 arithmetic
LAdd(a, b) == [l \in Lanes |-> FAdd(a[l], b[l])]
LSub(a, b) == [l \in Lanes |-> FSub(a[l], b[l])]
LMul(a, b) == [l \in Lanes |-> FMul(a[l], b[l])]
LSin(a) == [l \in Lanes |-> FSin(a[l])]
LCos(a) == [l \in Lanes |-> FCos(a[l])]

\* the lanes of the displacement once q_a_cos and sin_phases are known
displacement_simd_of(q_a_cos, sin_phases, wave) ==
    <<LMul(q_a_cos, splat(wave.direction.x)),
      LMul(q_a_cos, splat(wave.direction.y)),
      LMul(splat(wave.amplitude), sin_phases)>>

\* the lanes of the displacement at four phases
displacement_simd_at_phases(phases, wave) ==
    displacement_simd_of(LMul(splat(q_a(wave)), LCos(phases)), LSin(phases), wave)

\* the same for four positions at once
calculate_gerstner_displacement_simd(positions_x, positions_z, wave, time) ==
    displacement_simd_at_phases(
        LSub(LMul(splat(wave.wave_number),
                  LAdd(LMul(positions_x, splat(wave.direction.x)),
                       LMul(positions_z, splat(wave.direction.y)))),
             splat(FMul(wave.speed, time))),
        wave)

\* height-only query: the sum of amplitude * sin(phase) over the waves
RECURSIVE wave_height_from(_, _, _, _, _)
wave_height_from(position, waves, time, i, total_height) ==
    IF i > Len(waves) THEN total_height
    ELSE wave_height_from(position, waves, time, i + 1,
             FAdd(total_height,
                  FMul(waves[i].amplitude,
                       FSin(phase_of(Dot2(position, waves[i].direction), waves[i], time)))))

\* get_wave_height reading the live mesh buffer as well: the wave sum, plus the
\* height of the first vertex of the displaced mesh
get_wave_height_of_mesh(position, waves, time) ==
    FAdd(wave_height_from(position, waves, time, 1, Zero),
         IF Len(water) >= 1 /\ Len(water[1].pos_data) >= 1
         THEN water[1].pos_data[1].y ELSE Zero)

get_wave_height(position, waves, time) ==
    wave_height_from(position, waves, time, 1, Zero)

\* ------------------------------------------------------------------ mesh
\* the rest position of grid vertex (x, z)
grid_position(x, z, step, half_size) ==
    Vec3(FSub(FMul(FromUsize(x), step), half_size),
         Zero,
         FSub(FMul(FromUsize(z), step), half_size))

\* create_water_mesh for grid_size >= 1: the rest positions, row-major (x, then z).
\* Vertex idx (from 0) is element idx + 1.
create_water_mesh(grid_size, world_size) ==
    [i \in 1..(grid_size * grid_size) |->
        grid_position((i - 1) % grid_size, (i - 1) \div grid_size,
                      FDiv(world_size, FromUsize(grid_size - 1)),
                      FDiv(world_size, Fin(2 * Scale)))]

\* total += d, for <<dx, dz, dy>> of lanes
add_simd(totals, d) ==
    <<LAdd(totals[1], d[1]), LAdd(totals[2], d[2]), LAdd(totals[3], d[3])>>

\* the lanes of one full chunk after all waves are summed: <<total_dx, total_dz, total_dy>>
RECURSIVE simd_totals(_, _, _, _, _, _)
simd_totals(positions_x, positions_z, waves, elapsed, i, totals) ==
    IF i > Len(waves) THEN totals
    ELSE simd_totals(positions_x, positions_z, waves, elapsed, i + 1,
             add_simd(totals,
                      calculate_gerstner_displacement_simd(positions_x, positions_z,
                                                           waves[i], elapsed)))

\* total_displacement += d, for <<dx, dz, dy>>
add_scalar(total, d) ==
    <<FAdd(total[1], d[1]), FAdd(total[2], d[2]), FAdd(total[3], d[3])>>

\* total_displacement of the scalar path: <<dx, dz, dy>>
RECURSIVE scalar_totals(_, _, _, _, _)
scalar_totals(pos_2d, waves, elapsed, i, total) ==
    IF i > Len(waves) THEN total
    ELSE scalar_totals(pos_2d, waves, elapsed, i + 1,
             add_scalar(total,
                        calculate_gerstner_displacement(pos_2d, waves[i], elapsed)))

Min(a, b) == IF a <= b THEN a ELSE b

\* write_simd taking the lane after its own for each vertex of the chunk: every
\* vertex gets the displacement of a neighbour
write_simd_next_lane(pos_data, base_positions, chunk_start, t) ==
    [idx1 \in 1..Len(base_positions) |->
        IF idx1 > chunk_start /\ idx1 <= chunk_start + 4
        THEN Vec3(FAdd(base_positions[idx1].x, t[1][((idx1 - chunk_start) % 4) + 1]),
                  t[3][((idx1 - chunk_start) % 4) + 1],
                  FAdd(base_positions[idx1].z, t[2][((idx1 - chunk_start) % 4) + 1]))
        ELSE pos_data[idx1]]

\* the writes of a full chunk: lane idx - chunk_start of the totals goes to vertex idx
write_simd(pos_data, base_positions, chunk_start, t) ==
    [idx1 \in 1..Len(base_positions) |->
        IF idx1 > chunk_start /\ idx1 <= chunk_start + 4
        THEN Vec3(FAdd(base_positions[idx1].x, t[1][idx1 - chunk_start]),
                  t[3][idx1 - chunk_start],
                  FAdd(base_positions[idx1].z, t[2][idx1 - chunk_start]))
        ELSE pos_data[idx1]]

\* the write of one vertex of the remainder
write_scalar(base_pos, t) ==
    Vec3(FAdd(base_pos.x, t[1]), t[3], FAdd(base_pos.z, t[2]))

\* one iteration of the chunk loop: the writes it makes to pos_data
process_chunk(pos_data, base_positions, waves, elapsed, chunk_start) ==
    IF Min(chunk_start + 4, Len(base_positions)) - chunk_start = 4
    THEN write_simd(pos_data, base_positions, chunk_start,
             simd_totals([l \in Lanes |-> base_positions[chunk_start + l].x],
                         [l \in Lanes |-> base_positions[chunk_start + l].z],
                         waves, elapsed, 1,
                         <<splat(Zero), splat(Zero), splat(Zero)>>))
    ELSE [idx1 \in 1..Len(base_positions) |->
            IF idx1 > chunk_start /\ idx1 <= Min(chunk_start + 4, Len(base_positions))
            THEN write_scalar(base_positions[idx1],
                     scalar_totals(Vec2(base_positions[idx1].x, base_positions[idx1].z),
                                   waves, elapsed, 1, <<Zero, Zero, Zero>>))
            ELSE pos_data[idx1]]

\* the operation `mesh.compute_normals()` in the log of mesh operations
ComputeNormals == -1

\* chunk_ops with compute_normals called inside the chunk loop
chunk_ops_with_normals(vertex_count, chunk_start) ==
    Append([k \in 1..(Min(chunk_start + 4, vertex_count) - chunk_start) |->
                chunk_start + k - 1],
           ComputeNormals)

\* the mesh operations of one chunk, in program order: vertex idx for a position write
chunk_ops(vertex_count, chunk_start) ==
    [k \in 1..(Min(chunk_start + 4, vertex_count) - chunk_start) |-> chunk_start + k - 1]

\* the chunk loop from chunk_start on, then compute_normals:
\* [pos_data, ops] where ops is the log of mesh operations in program order
RECURSIVE deform_from(_, _, _, _, _, _)
deform_from(pos_data, ops, base_positions, waves, elapsed, chunk_start) ==
    IF chunk_start >= Len(base_positions)
    THEN [pos_data |-> pos_data, ops |-> Append(ops, ComputeNormals)]
    ELSE deform_from(process_chunk(pos_data, base_positions, waves, elapsed, chunk_start),
                     ops \o chunk_ops(Len(base_positions), chunk_start),
                     base_positions, waves, elapsed, chunk_start + 4)

\* ------------------------------------------------------------------ Vec3, Quat
V3Add(a, b) == Vec3(FAdd(a.x, b.x), FAdd(a.y, b.y), FAdd(a.z, b.z))
V3Scale(a, s) == Vec3(FMul(a.x, s), FMul(a.y, s), FMul(a.z, s))
V3Dot(a, b) == FAdd(FAdd(FMul(a.x, b.x), FMul(a.y, b.y)), FMul(a.z, b.z))
V3Cross(a, b) ==
    Vec3(FSub(FMul(a.y, b.z), FMul(b.y, a.z)),
         FSub(FMul(a.z, b.x), FMul(b.z, a.x)),
         FSub(FMul(a.x, b.y), FMul(b.x, a.y)))

\* the integer square root of n >= 0, between lo and hi
RECURSIVE isqrt_between(_, _, _)
isqrt_between(n, lo, hi) ==
    IF lo >= hi THEN lo
    ELSE IF ((lo + hi + 1) \div 2) * ((lo + hi + 1) \div 2) <= n
         THEN isqrt_between(n, (lo + hi + 1) \div 2, hi)
         ELSE isqrt_between(n, lo, (lo + hi + 1) \div 2 - 1)

SqrtLimit == 2 ^ 15
ISqrt(n) == isqrt_between(n, 0, SqrtLimit)

Max(a, b) == IF a >= b THEN a ELSE b

\* the length of (x, y, z) with the components divided by k before squaring
length_scaled(x, y, z, k) ==
    k * ISqrt((x \div k) * (x \div k) + (y \div k) * (y \div k) + (z \div k) * (z \div k))

\* Vec3::length of a finite vector; the components are scaled down first when
\* their squares would not fit the integers of the model
V3Length(a) ==
    Fin(length_scaled(Abs(a.x.v), Abs(a.y.v), Abs(a.z.v),
                      Max(Abs(a.x.v), Max(Abs(a.y.v), Abs(a.z.v))) \div 10000 + 1))

Quat(x, y, z, w) == [x |-> x, y |-> y, z |-> z, w |-> w]
IDENTITY == Quat(Zero, Zero, Zero, One)
QDot(a, b) ==
    FAdd(FAdd(FAdd(FMul(a.x, b.x), FMul(a.y, b.y)), FMul(a.z, b.z)), FMul(a.w, b.w))
QScale(a, s) == Quat(FMul(a.x, s), FMul(a.y, s), FMul(a.z, s), FMul(a.w, s))
QAdd(a, b) == Quat(FAdd(a.x, b.x), FAdd(a.y, b.y), FAdd(a.z, b.z), FAdd(a.w, b.w))
QNeg(a) == Quat(FNeg(a.x), FNeg(a.y), FNeg(a.z), FNeg(a.w))

\* Quat * Quat
QMul(a, b) ==
    Quat(FAdd(FSub(FAdd(FMul(a.w, b.x), FMul(a.x, b.w)), FMul(a.z, b.y)), FMul(a.y, b.z)),
         FAdd(FAdd(FSub(FMul(a.w, b.y), FMul(a.x, b.z)), FMul(a.y, b.w)), FMul(a.z, b.x)),
         FAdd(FSub(FAdd(FMul(a.w, b.z), FMul(a.x, b.y)), FMul(a.y, b.x)), FMul(a.z, b.w)),
         FSub(FSub(FSub(FMul(a.w, b.w), FMul(a.x, b.x)), FMul(a.y, b.y)), FMul(a.z, b.z)))

\* sqrt of a finite f32 >= 0
FSqrt(a) == Fin(ISqrt(a.v * Scale))

QDivide(a, length) ==
    Quat(FDiv(a.x, length), FDiv(a.y, length), FDiv(a.z, length), FDiv(a.w, length))

\* Quat::normalize
QNormalize(a) == QDivide(a, FSqrt(QDot(a, a)))

\* Quat * Vec3, for the vector part b of the quaternion
rotate_by(b, w, rhs) ==
    V3Add(V3Add(V3Scale(rhs, FSub(FMul(w, w), V3Dot(b, b))),
                V3Scale(b, FMul(V3Dot(rhs, b), Fin(2 * Scale)))),
          V3Scale(V3Cross(b, rhs), FMul(w, Fin(2 * Scale))))

QMulVec3(q, rhs) == rotate_by(Vec3(q.x, q.y, q.z), q.w, rhs)

Half(a) == Fin(RoundDiv(a.v, 2))
from_rotation_x(angle) == Quat(FSin(Half(angle)), Zero, Zero, FCos(Half(angle)))
from_rotation_y(angle) == Quat(Zero, FSin(Half(angle)), Zero, FCos(Half(angle)))
from_rotation_z(angle) == Quat(Zero, Zero, FSin(Half(angle)), FCos(Half(angle)))

\* Quat::from_euler(EulerRot::XYZ, a, b, c)
from_euler_XYZ(a, b, c) ==
    QMul(QMul(from_rotation_x(a), from_rotation_y(b)), from_rotation_z(c))

\* the least angle in lo..hi whose cosine is at most d (the cosine falls on 0..Pi)
RECURSIVE acos_between(_, _, _)
acos_between(d, lo, hi) ==
    IF lo >= hi THEN lo
    ELSE IF FCos(Fin((lo + hi) \div 2)).v <= d
         THEN acos_between(d, lo, (lo + hi) \div 2)
         ELSE acos_between(d, (lo + hi) \div 2 + 1, hi)

FACos(a) == Fin(acos_between(a.v, 0, Pi))

\* the interpolation by the angle theta between the two
slerp_by_angle(self, end, s, theta) ==
    QScale(QAdd(QScale(self, FSin(FMul(theta, FSub(One, s)))),
                QScale(end, FSin(FMul(theta, s)))),
           FDiv(One, FSin(theta)))

\* the interpolation once end is on the side of self (dot >= 0): linear above
\* DOT_THRESHOLD = 1 - f32::EPSILON
slerp_toward(self, end, s, dot) ==
    IF FGt(dot, Fin(Scale - 1))
    THEN QNormalize(QAdd(QScale(self, FSub(One, s)), QScale(end, s)))
    ELSE slerp_by_angle(self, end, s, FACos(dot))

\* Quat::slerp(self, end, s)
slerp(self, end, s) ==
    IF FGt(Zero, QDot(self, end))
    THEN slerp_toward(self, QNeg(end), s, FNeg(QDot(self, end)))
    ELSE slerp_toward(self, end, s, QDot(self, end))

\* ------------------------------------------------------------------ buoyancy
Gravity == 981
SubmersionCap == 20
TorqueThreshold == 1
RotationGain == 10

\* submerged with the test left out: every sample point counts
submerged_always(submersion) == TRUE

\* `if submersion > 0.0`
submerged(submersion) == FGt(submersion, Zero)

\* water_density * 9.81 * submersion.min(0.2)
buoyancy_force_of(floating_body, submersion) ==
    FMul(FMul(floating_body.water_density, Fin(Gravity)),
         FMin(submersion, Fin(SubmersionCap)))

\* the accumulators after a submerged point
add_force(acc, buoyancy_point, submersion, buoyancy_force) ==
    [total_buoyancy_force |-> FAdd(acc.total_buoyancy_force, buoyancy_force),
     total_torque |-> V3Add(acc.total_torque,
                            V3Cross(buoyancy_point, Vec3(Zero, buoyancy_force, Zero))),
     submerged_points |-> acc.submerged_points + 1,
     submersions |-> Append(acc.submersions, submersion)]

\* the accumulators after a point of the given submersion
sample(floating_body, buoyancy_point, acc, submersion) ==
    IF submerged(submersion)
    THEN add_force(acc, buoyancy_point, submersion,
                   buoyancy_force_of(floating_body, submersion))
    ELSE [acc EXCEPT !.submersions = Append(acc.submersions, submersion)]

\* water_height - world_point.y
submersion_at(world_point, waves, elapsed) ==
    FSub(get_wave_height(Vec2(world_point.x, world_point.z), waves, elapsed),
         world_point.y)

\* the sample loop of update_surfboard_physics from point i on:
\* acc = [total_buoyancy_force, total_torque, submerged_points, submersions]
RECURSIVE sample_from(_, _, _, _, _, _)
sample_from(transform, floating_body, waves, elapsed, i, acc) ==
    IF i > Len(floating_body.buoyancy_points) THEN acc
    ELSE sample_from(transform, floating_body, waves, elapsed, i + 1,
             sample(floating_body, floating_body.buoyancy_points[i], acc,
                    submersion_at(V3Add(transform.translation,
                                        QMulVec3(transform.rotation,
                                                 floating_body.buoyancy_points[i])),
                                  waves, elapsed)))

\* total_buoyancy_force + gravity
net_force(floating_body, total_buoyancy_force) ==
    FAdd(total_buoyancy_force, FMul(Fin(-Gravity), floating_body.body_density))

\* integrate with the drag applied before the integration step
integrate_drag_first(y, floating_body, dt, net_vertical_force) ==
    FAdd(FMul(y, FSub(One, FMul(floating_body.drag_coefficient, dt))),
         FMul(FMul(FDiv(net_vertical_force, floating_body.body_density), dt), dt))

\* translation.y after the integration step and the drag
integrate(y, floating_body, dt, net_vertical_force) ==
    FMul(FAdd(y, FMul(FMul(FDiv(net_vertical_force, floating_body.body_density), dt),
                      dt)),
         FSub(One, FMul(floating_body.drag_coefficient, dt)))

\* the rotation made from rotation_speed
rotation_of(rotation_speed) ==
    from_euler_XYZ(rotation_speed.x, Zero, rotation_speed.z)

\* transform.rotation after the torque is applied
apply_torque(rotation, total_torque, dt) ==
    IF FGt(V3Length(total_torque), Fin(TorqueThreshold))
    THEN QNormalize(QMul(rotation,
             rotation_of(V3Scale(V3Scale(total_torque, Fin(RotationGain)), dt))))
    ELSE rotation

\* the body after the sample loop has left acc, with the values of the locals
\* the properties speak about
finish_body(transform, floating_body, dt, acc) ==
    [body |->
        [transform |->
            [translation |->
                [transform.translation EXCEPT
                    !.y = integrate(transform.translation.y, floating_body, dt,
                              net_force(floating_body, acc.total_buoyancy_force))],
             rotation |->
                slerp(apply_torque(transform.rotation, acc.total_torque, dt),
                      IDENTITY, FMul(floating_body.drag_coefficient, dt))],
         floating_body |->
            [floating_body EXCEPT
                !.submerged_volume =
                    FDiv(FromUsize(acc.submerged_points),
                         FromUsize(Len(floating_body.buoyancy_points)))]],
     trace |->
        [executed |-> TRUE,
         submersions |-> acc.submersions,
         total_buoyancy_force |-> acc.total_buoyancy_force,
         net_vertical_force |-> net_force(floating_body, acc.total_buoyancy_force)]]

\* the body of the loop over the bodies
update_body(body, waves, elapsed, dt) ==
    finish_body(body.transform, body.floating_body, dt,
        sample_from(body.transform, body.floating_body, waves, elapsed, 1,
            [total_buoyancy_force |-> Zero,
             total_torque |-> Vec3(Zero, Zero, Zero),
             submerged_points |-> 0,
             submersions |-> <<>>]))

\* ------------------------------------------------------------------ inputs
\* the wave literals a WaterWaves is built from: amplitude, wavelength, speed,
\* direction, steepness, wave_number (= 2 pi / wavelength), in fixed point
UnitWave == Wave(100, 628, 100, 100, 0, 10, 100)
PrimaryWave == Wave(100, 2500, 200, 100, 10, 15, 25)
SteepWave == Wave(70, 628, 100, 0, 100, 200, 100)
NoDirectionWave == Wave(100, 628, 100, 0, 0, 10, 100)
FlatWave == Wave(0, 628, 100, 100, 0, 10, 100)
InvertedWave == Wave(-50, 628, 100, 100, 0, 10, 100)
WaveLiterals ==
    <<UnitWave, PrimaryWave, SteepWave, NoDirectionWave, FlatWave, InvertedWave>>

\* the lists of at most n literals, each literal at most once, in catalogue order
RECURSIVE PicksUpTo(_, _)
PicksUpTo(from, n) ==
    IF n = 0 \/ from > Len(WaveLiterals) THEN {<<>>}
    ELSE PicksUpTo(from + 1, n)
         \cup {<<WaveLiterals[from]>> \o q : q \in PicksUpTo(from + 1, n - 1)}

WaveLists == PicksUpTo(1, MaxWaves)
GridSizes == 0..MaxGrid
WorldSizes == {Fin(3 * Scale)}

P3(x, y, z) == Vec3(Fin(x), Fin(y), Fin(z))
\* FloatingBody::default().buoyancy_points
SurfboardPoints ==
    <<P3(-150, 0, -30), P3(150, 0, -30), P3(-150, 0, 30), P3(150, 0, 30), P3(0, 0, 0)>>
\* the bodies spawned: buoyancy_points, and the height of the translation (the
\* surfboard starts at 2.0, above the water; -1.0 is under it)
BodySpawns ==
    {<<<<>>, -Scale>>, <<<<P3(0, 0, 0)>>, -Scale>>,
     <<SurfboardPoints, 2 * Scale>>, <<SurfboardPoints, -Scale>>}

\* Time: the fixed timestep, and the elapsed time of tick n
delta_secs == Fin(Scale \div 4)
elapsed_secs(n) == Fin(n * delta_secs.v)

\* ------------------------------------------------------------------ initial state
Init ==
    /\ app = "startup"
    /\ startup_ran = {}
    /\ water = <<>>
    /\ bodies = <<>>
    /\ tick = 0
    /\ ran = {}
    /\ mesh_ops = <<>>
    /\ solver_trace = <<>>
    /\ tick_start = [water |-> <<>>, bodies |-> <<>>]

\* ------------------------------------------------------------------ startup
\* spawn_water: grid_size - 1 on a usize 0 panics in a build with overflow
\* checks, and wraps in one without, where the index loops then never end
\* short of exhausting memory
spawn_water(grid_size, world_size, literals) ==
    /\ app = "startup"
    /\ "spawn_water" \notin startup_ran
    /\ startup_ran' = startup_ran \cup {"spawn_water"}
    /\ IF grid_size = 0
       THEN /\ \E end \in {"panicked", "aborted"} : app' = end
            /\ UNCHANGED water
       ELSE LET base_positions == create_water_mesh(grid_size, world_size)
            IN /\ water' = Append(water,
                      [surface |-> [grid_size |-> grid_size,
                                    world_size |-> world_size,
                                    vertex_count |-> grid_size * grid_size,
                                    base_positions |-> base_positions],
                       waves |-> WaterWaves_default(literals),
                       pos_data |-> base_positions])
               /\ UNCHANGED app
    /\ UNCHANGED <<bodies, tick, ran, mesh_ops, solver_trace, tick_start>>

spawn_surfboard(points, height) ==
    /\ app = "startup"
    /\ "spawn_surfboard" \notin startup_ran
    /\ startup_ran' = startup_ran \cup {"spawn_surfboard"}
    /\ bodies' = Append(bodies,
           [transform |-> [translation |-> Vec3(Zero, Fin(height), Zero),
                           rotation |-> IDENTITY],
            floating_body |-> [buoyancy_points |-> points,
                               submerged_volume |-> Zero,
                               water_density |-> Fin(1000 * Scale),
                               body_density |-> Fin(200 * Scale),
                               drag_coefficient |-> Fin(Scale \div 10)]])
    /\ UNCHANGED <<app, water, tick, ran, mesh_ops, solver_trace, tick_start>>

\* the Startup schedule is over: the FixedUpdate ticks begin
StartupDone ==
    /\ app = "startup"
    /\ app' = "running"
    /\ tick_start' = [water |-> water, bodies |-> bodies]
    /\ UNCHANGED <<startup_ran, water, bodies, tick, ran, mesh_ops, solver_trace>>

\* ------------------------------------------------------------------ ticks
\* update_water_vertices for one entity of the query
deform(entity, elapsed) ==
    deform_from(entity.pos_data, <<>>, entity.surface.base_positions, entity.waves,
                elapsed, 0)

update_water_vertices ==
    /\ app = "running"
    /\ tick < MaxTicks
    /\ "update_water_vertices" \notin ran
    /\ ran' = ran \cup {"update_water_vertices"}
    /\ LET out == [e \in 1..Len(water) |-> deform(water[e], elapsed_secs(tick))]
       IN /\ water' = [e \in 1..Len(water) |->
                          [water[e] EXCEPT !.pos_data = out[e].pos_data]]
          /\ mesh_ops' = [e \in 1..Len(water) |-> out[e].ops]
    /\ UNCHANGED <<app, startup_ran, bodies, tick, solver_trace, tick_start>>

\* water_query.single() falling back to an empty WaterWaves when there is none
water_query_single_or_empty(entities) ==
    [ok |-> TRUE, waves |-> IF Len(entities) = 1 THEN entities[1].waves ELSE <<>>]

\* water_query.single(): Ok with the waves of the one entity, or an error
water_query_single(entities) ==
    IF Len(entities) = 1
    THEN [ok |-> TRUE, waves |-> entities[1].waves]
    ELSE [ok |-> FALSE, waves |-> <<>>]

\* update_surfboard_physics: nothing happens unless water_query.single() is Ok
update_surfboard_physics ==
    /\ app = "running"
    /\ tick < MaxTicks
    /\ "update_surfboard_physics" \notin ran
    /\ ran' = ran \cup {"update_surfboard_physics"}
    /\ IF water_query_single(water).ok
       THEN LET waves == water_query_single(water).waves
                out == [b \in 1..Len(bodies) |->
                           update_body(bodies[b], waves, elapsed_secs(tick), delta_secs)]
            IN /\ bodies' = [b \in 1..Len(bodies) |-> out[b].body]
               /\ solver_trace' = [b \in 1..Len(bodies) |-> out[b].trace]
       ELSE UNCHANGED <<bodies, solver_trace>>
    /\ UNCHANGED <<app, startup_ran, water, tick, mesh_ops, tick_start>>

\* both systems of the FixedUpdate schedule have run: the next tick begins
FixedUpdateEnd ==
    /\ app = "running"
    /\ ran = {"update_water_vertices", "update_surfboard_physics"}
    /\ tick' = tick + 1
    /\ ran' = {}
    /\ mesh_ops' = <<>>
    /\ solver_trace' = <<>>
    /\ tick_start' = [water |-> water, bodies |-> bodies]
    /\ UNCHANGED <<app, startup_ran, water, bodies>>

Next ==
    \/ \E g \in GridSizes, w \in WorldSizes, l \in WaveLists : spawn_water(g, w, l)
    \/ \E b \in BodySpawns : spawn_surfboard(b[1], b[2])
    \/ StartupDone
    \/ update_water_vertices
    \/ update_surfboard_physics
    \/ FixedUpdateEnd

Spec == Init /\ [][Next]_vars

\* ------------------------------------------------------------------ properties
WaterIds == 1..Len(water)
BodyIds == 1..Len(bodies)
Ticked == tick > 0 \/ ran # {}

\* steepness * amplitude * wave_number <= 0.9, in exact arithmetic
Stable(wave) ==
    wave.steepness.n * wave.amplitude.v * wave.wave_number.v
        <= NineTenths * Scale * wave.steepness.d

AtLimit(wave) ==
    wave.steepness.n * wave.amplitude.v * wave.wave_number.v
        = NineTenths * Scale * wave.steepness.d

\* C1: every wave component of every WaterWaves satisfies
\* steepness * amplitude * wave_number <= 0.9, in every state from construction
\* on, whatever the number of ticks; a steepness above 0.9 / (amplitude *
\* wave_number) has been clamped down to exactly that value.
C1_StabilityBound ==
    \A e \in WaterIds : \A i \in 1..Len(water[e].waves) :
        LET wave == water[e].waves[i]
        IN /\ Stable(wave)
           /\ \A k \in 1..Len(WaveLiterals) :
                 [WaveLiterals[k] EXCEPT !.steepness = wave.steepness] = wave
                    => \/ wave.steepness = WaveLiterals[k].steepness
                       \/ /\ AtLimit(wave)
                          /\ RatGt(WaveLiterals[k].steepness, wave.steepness)

\* C1 witness: a WaterWaves holding a wave whose steepness was clamped to the
\* limit, after ticks have run
C1_Witness ==
    /\ tick > 0
    /\ \E e \in WaterIds : \E i \in 1..Len(water[e].waves) :
          /\ water[e].waves[i].steepness # SteepWave.steepness
          /\ water[e].waves[i] = clamp_steepness(SteepWave)
          /\ AtLimit(water[e].waves[i])

ValidDescriptor(wave) ==
    /\ ~(wave.direction.x.v = 0 /\ wave.direction.y.v = 0)
    /\ wave.amplitude.v > 0
    /\ wave.wavelength.v > 0

\* C2 (as claimed): no WaterWaves that a tick can observe holds a wave whose
\* direction is zero-length or whose amplitude or wavelength is not positive:
\* construction rejects such a wave.
C2_InvalidDescriptorRejected ==
    app = "running" =>
        \A e \in WaterIds : \A i \in 1..Len(water[e].waves) :
            ValidDescriptor(water[e].waves[i])

\* C3 (as claimed): no surface exists that was built with grid_size < 2, so no
\* grid whose spacing was computed with a zero divisor reaches the deformer.
C3_NoDegenerateGrid ==
    \A e \in WaterIds : water[e].surface.grid_size >= 2

Solved(b) ==
    /\ "update_surfboard_physics" \in ran
    /\ b \in 1..Len(solver_trace)
    /\ solver_trace[b].executed

\* C4 (as claimed): after the solver has updated a body with no sample points,
\* its submerged_volume is exactly 0.
C4_NoSamplePointsFractionZero ==
    \A b \in BodyIds :
        (Solved(b) /\ Len(bodies[b].floating_body.buoyancy_points) = 0)
            => bodies[b].floating_body.submerged_volume = Zero

\* C5 (as claimed): every body's submerged_volume is within [0, 1] in every
\* state, whatever its sample points and the water.
C5_FractionInUnitInterval ==
    \A b \in BodyIds :
        /\ FLe(Zero, bodies[b].floating_body.submerged_volume)
        /\ FLe(bodies[b].floating_body.submerged_volume, One)

AllSubmersions(b, P(_)) ==
    \A k \in 1..Len(solver_trace[b].submersions) : P(solver_trace[b].submersions[k])
Positive(a) == FGt(a, Zero)
NonPositive(a) == FLe(a, Zero)
GravityTerm(b) == FMul(Fin(-Gravity), bodies[b].floating_body.body_density)

OnlyGravity(b) ==
    AllSubmersions(b, NonPositive)
        => /\ solver_trace[b].total_buoyancy_force = Zero
           /\ solver_trace[b].net_vertical_force = GravityTerm(b)

\* C6 (as claimed): in a solver tick, a body whose every sample point has
\* positive submersion gets a strictly positive total buoyant force, and a
\* body whose every sample point has non-positive submersion gets none, its net
\* force being the gravity term -9.81 * body_density alone.
C6_ForceSignAsClaimed ==
    \A b \in BodyIds :
        Solved(b) =>
            /\ AllSubmersions(b, Positive)
                  => FGt(solver_trace[b].total_buoyancy_force, Zero)
            /\ OnlyGravity(b)

\* C6 (amended): the same, the strictly positive force being claimed only of a
\* body that has at least one sample point (and a positive water_density).
C6_ForceSign ==
    \A b \in BodyIds :
        Solved(b) =>
            /\ ( /\ Len(bodies[b].floating_body.buoyancy_points) >= 1
                 /\ FGt(bodies[b].floating_body.water_density, Zero)
                 /\ AllSubmersions(b, Positive) )
                  => FGt(solver_trace[b].total_buoyancy_force, Zero)
            /\ OnlyGravity(b)

\* C6 witness: the solver has updated a body all of whose five sample points
\* were under water
C6_Witness ==
    \E b \in BodyIds :
        /\ Solved(b)
        /\ Len(solver_trace[b].submersions) = 5
        /\ AllSubmersions(b, Positive)

\* C7: when there is no WaterWaves the solver does nothing: in a tick without
\* one, every body keeps the position, orientation and submerged_volume it had
\* when the tick began.
C7_NoWaterNoUpdate ==
    (app = "running" /\ Len(water) = 0) => bodies = tick_start.bodies

\* C7 witness: the solver has been invoked on a body while no WaterWaves exists
C7_Witness ==
    /\ app = "running"
    /\ Len(water) = 0
    /\ Len(bodies) = 1
    /\ "update_surfboard_physics" \in ran

\* C8: in a deformer tick compute_normals is called exactly once per surface,
\* after every position write of the tick: it is the last mesh operation, and
\* the operations before it are the position writes and nothing else.
C8_NormalsOnceAfterWrites ==
    "update_water_vertices" \in ran =>
        /\ Len(mesh_ops) = Len(water)
        /\ \A e \in WaterIds :
              LET ops == mesh_ops[e]
              IN /\ Len(ops) = water[e].surface.vertex_count + 1
                 /\ ops[Len(ops)] = ComputeNormals
                 /\ \A k \in 1..(Len(ops) - 1) : ops[k] # ComputeNormals

\* C8 witness: a surface of several chunks and a remainder has been deformed
C8_Witness ==
    /\ "update_water_vertices" \in ran
    /\ \E e \in WaterIds : water[e].surface.vertex_count = 9 /\ Len(mesh_ops[e]) = 10

\* what each system computes from the state the tick began with
DeformedAtStart ==
    [e \in 1..Len(tick_start.water) |->
        [tick_start.water[e] EXCEPT
            !.pos_data = deform(tick_start.water[e], elapsed_secs(tick)).pos_data]]
SolvedAtStart ==
    IF water_query_single(tick_start.water).ok
    THEN [b \in 1..Len(tick_start.bodies) |->
            update_body(tick_start.bodies[b], water_query_single(tick_start.water).waves,
                        elapsed_secs(tick), delta_secs).body]
    ELSE tick_start.bodies

\* C9: within a tick the deformer writes the mesh positions only and the solver
\* the bodies only; base_positions and the waves are written by neither.  So
\* once both have run, whichever ran first, the mesh and the bodies are what each
\* system computes from the state at the start of the tick.
C9_DisjointWrites ==
    app = "running" =>
        /\ "update_water_vertices" \notin ran => water = tick_start.water
        /\ "update_surfboard_physics" \notin ran => bodies = tick_start.bodies
        /\ ran = {"update_water_vertices", "update_surfboard_physics"}
              => water = DeformedAtStart /\ bodies = SolvedAtStart
        /\ \A e \in WaterIds :
              /\ water[e].waves = tick_start.water[e].waves
              /\ water[e].surface = tick_start.water[e].surface

\* C9 witness: both systems have run in a tick, on a surface and a body that
\* both changed
C9_Witness ==
    /\ ran = {"update_water_vertices", "update_surfboard_physics"}
    /\ Len(water) = 1
    /\ Len(bodies) = 1
    /\ water # tick_start.water
    /\ bodies # tick_start.bodies

\* a deformer tick at t = 0 on the grid of the given size and world size 3.0,
\* under the single wave {amplitude 1, wavelength 2 pi, speed 1, direction
\* (1, 0), steepness 0.1}
EndToEndCase(grid_size) ==
    /\ tick = 0
    /\ "update_water_vertices" \in ran
    /\ Len(water) = 1
    /\ water[1].surface.grid_size = grid_size
    /\ water[1].surface.world_size = Fin(3 * Scale)
    /\ water[1].waves = <<UnitWave>>

Origin == Vec3(Zero, Zero, Zero)
OriginDisplacedTo(x, y, z) ==
    \E i \in 1..Len(water[1].pos_data) :
        /\ water[1].surface.base_positions[i] = Origin
        /\ water[1].pos_data[i] = Vec3(Fin(x), Fin(y), Fin(z))

\* C10 (as claimed): after that tick on the grid of grid_size 4, the vertex
\* whose base position is (0, 0, 0) is at (0.1, 0, 0).
C10_EndToEndAsClaimed ==
    EndToEndCase(4) => OriginDisplacedTo(Scale \div 10, 0, 0)

\* C10 (amended): the grid of grid_size 4 has no vertex at (0, 0, 0); after that
\* tick on the grid of grid_size 3, the vertex whose base position is (0, 0, 0)
\* is at (0.1, 0, 0).
C10_EndToEnd ==
    /\ EndToEndCase(4) =>
          \A i \in 1..Len(water[1].pos_data) : water[1].surface.base_positions[i] # Origin
    /\ EndToEndCase(3) => OriginDisplacedTo(Scale \div 10, 0, 0)

\* C10 witness: the tick has run on the grid of grid_size 3
C10_Witness ==
    EndToEndCase(3) /\ OriginDisplacedTo(Scale \div 10, 0, 0)

\* the position the claim gives vertex i of a surface at time elapsed: the
\* displacement of every wave at base[i]'s own (x, z), one scalar call per wave,
\* summed in the order of the waves and laid on the base position
RECURSIVE displacement_sum(_, _, _, _)
displacement_sum(base_pos, waves, elapsed, i) ==
    IF i = 0 THEN <<Zero, Zero, Zero>>
    ELSE LET rest == displacement_sum(base_pos, waves, elapsed, i - 1)
             d == calculate_gerstner_displacement(Vec2(base_pos.x, base_pos.z),
                                                  waves[i], elapsed)
         IN <<FAdd(rest[1], d[1]), FAdd(rest[2], d[2]), FAdd(rest[3], d[3])>>

ElementWise(base_pos, waves, elapsed) ==
    LET total == displacement_sum(base_pos, waves, elapsed, Len(waves))
    IN Vec3(FAdd(base_pos.x, total[1]), total[3], FAdd(base_pos.z, total[2]))

WritesOf(ops, idx) == Cardinality({k \in 1..Len(ops) : ops[k] = idx})

\* C11: in a deformer tick, whatever the vertex count, every vertex index in
\* 0..vertex_count is written exactly once and no other index is written, and
\* the position it is left with is (base.x + dx, dy, base.z + dz) for the
\* displacement summed over the waves at its own base (x, z): the 4-wide path
\* and the scalar remainder path are the same element-wise map.
C11_ElementWiseMap ==
    "update_water_vertices" \in ran =>
        \A e \in WaterIds :
            /\ Len(water[e].pos_data) = water[e].surface.vertex_count
            /\ \A k \in 1..Len(mesh_ops[e]) :
                  mesh_ops[e][k] = ComputeNormals
                     \/ mesh_ops[e][k] \in 0..(water[e].surface.vertex_count - 1)
            /\ \A idx \in 0..(water[e].surface.vertex_count - 1) :
                  /\ WritesOf(mesh_ops[e], idx) = 1
                  /\ water[e].pos_data[idx + 1] =
                        ElementWise(water[e].surface.base_positions[idx + 1],
                                    water[e].waves, elapsed_secs(tick))

\* C11 witness: a surface of 9 vertices (two full chunks and a remainder of one)
\* has been deformed under two waves at a time after 0, and a vertex of a full
\* chunk and the vertex of the remainder have both moved
C11_Witness ==
    /\ "update_water_vertices" \in ran
    /\ tick > 0
    /\ \E e \in WaterIds :
          /\ water[e].surface.vertex_count = 9
          /\ Len(water[e].waves) = 2
          /\ water[e].pos_data[2] # water[e].surface.base_positions[2]
          /\ water[e].pos_data[9] # water[e].surface.base_positions[9]
          /\ water[e].pos_data[2] =
                ElementWise(water[e].surface.base_positions[2], water[e].waves,
                            elapsed_secs(tick))

\* the acceleration the claim gives a body under a total buoyant force
ClaimedAcceleration(floating_body, total_buoyant_force) ==
    FDiv(FSub(total_buoyant_force, FMul(Fin(Gravity), floating_body.body_density)),
         floating_body.body_density)

\* the height the claim gives it: (y + acceleration * dt^2) * (1 - drag * dt)
ClaimedHeight(y, floating_body, total_buoyant_force, dt) ==
    FMul(FAdd(y, FMul(FMul(ClaimedAcceleration(floating_body, total_buoyant_force), dt),
                      dt)),
         FSub(One, FMul(floating_body.drag_coefficient, dt)))

\* a body as it was when the tick began, its derived submerged_volume forgotten
Forgetting(body) == [body EXCEPT !.floating_body.submerged_volume = NaN]

\* C12: a solver tick leaves a body at the height
\* (y + acceleration * dt^2) * (1 - drag_coefficient * dt), with acceleration =
\* (total_buoyant_force - 9.81 * body_density) / body_density and the integration
\* done before the damping; x and z are kept.  No velocity is carried: the body
\* after the tick is what the solver computes from its position, orientation
\* and parameters before the tick, the waves, t and dt, and from nothing else.
C12_PositionOnlyIntegration ==
    \A b \in BodyIds :
        Solved(b) =>
            /\ bodies[b].transform.translation =
                  [tick_start.bodies[b].transform.translation EXCEPT
                      !.y = ClaimedHeight(tick_start.bodies[b].transform.translation.y,
                               tick_start.bodies[b].floating_body,
                               solver_trace[b].total_buoyancy_force, delta_secs)]
            /\ bodies[b] =
                  update_body(Forgetting(tick_start.bodies[b]),
                              water_query_single(water).waves,
                              elapsed_secs(tick), delta_secs).body

\* C12 witness: in a tick after the first, the solver has moved a body of five
\* sample points that the water pushed up, from a height other than 0
C12_Witness ==
    /\ tick > 0
    /\ \E b \in BodyIds :
          /\ Solved(b)
          /\ Len(solver_trace[b].submersions) = 5
          /\ FGt(solver_trace[b].total_buoyancy_force, Zero)
          /\ tick_start.bodies[b].transform.translation.y # Zero
          /\ bodies[b].transform.translation.y
                # tick_start.bodies[b].transform.translation.y
          /\ bodies[b].transform.translation.y =
                ClaimedHeight(tick_start.bodies[b].transform.translation.y,
                              tick_start.bodies[b].floating_body,
                              solver_trace[b].total_buoyancy_force, delta_secs)

====
